---- MODULE Spec2Model ----
(***************************************************************************)
(* Model of the generative audio engine (class AudioEngine, the file that  *)
(* App.tsx imports as ./services/audioEngine, here src/unnamed/part_000)   *)
(* together with the host it runs on: the Web Audio backend, the host      *)
(* timers and the microtask queue that resumes suspended async calls.      *)
(*                                                                         *)
(* Numbers in [0,1] (RNG draws, complexity, thresholds) are integers in    *)
(* units of 5e-7 (One = 1.0).  A draw is represented by the midpoint of    *)
(* its 1e-6 bucket, hence is odd; every threshold is a multiple of 1e-6,   *)
(* hence even, so comparisons between a draw and a threshold are exact.    *)
(***************************************************************************)
EXTENDS Integers, Sequences, FiniteSets, TLC

VARIABLES
    ctxPresent,          \* this.ctx !== null (set once by the constructor)
    ctxState,            \* this.ctx.state: "suspended" or "running"
    isPlaying,           \* this.isPlaying, the liveness flag
    masterGain,          \* this.masterGain: 0 is null, else the id of the gain node
    melodyInterval,      \* this.melodyInterval: 0 is null, else the timer id
    reverbNode,          \* this.reverbNode: 0 is null, else the id of the convolver
    delayNode,           \* this.delayNode: 0 is null, else the id of the delay
    currentOscillators,  \* this.currentOscillators: the tracked voices, in push order
    calls,               \* the play() calls made so far: arguments, position, rng closure
    voices,              \* host: every pad oscillator / LFO ever created, with the number
                         \* of times it was stopped and disconnected (releases)
    timers,              \* host: the interval timers that are set and not cleared
    liveGains,           \* host: the master gains that still have output connections
    notes,               \* host: the melody notes emitted so far, in emission order
    microQ,              \* host: the microtask queue (FIFO) of async continuations
    pending,             \* host: the ctx.resume() promises not settled yet, in call order
    stopError,           \* whether the last stop() call let an exception escape
    harness              \* test harness: a melody layer driven by an injected draw stream

vars == <<ctxPresent, ctxState, isPlaying, masterGain, melodyInterval, reverbNode,
          delayNode, currentOscillators, calls, voices, timers, liveGains, notes,
          microQ, pending, stopError, harness>>

engineVars == <<isPlaying, masterGain, melodyInterval, reverbNode, delayNode,
                currentOscillators>>

hostVars == <<voices, timers, liveGains, notes>>

----------------------------------------------------------------------------
(* Bounds of the model *)

MaxCalls == 2          \* play() calls per behaviour
MaxMelodyDraws == 4    \* RNG draws one session's melody may consume
MaxNotes == 2          \* melody notes emitted per behaviour
MaxRaise == 1          \* tracked voices whose stop() may raise in one stop()
MaxThrowCalls == 1     \* play() calls per behaviour on the host whose stop() may raise
DrawLen == 5           \* length of an injected draw stream (it repeats after that)
MaxTicks == 4          \* ticks a harness run plays
MaxSeedLen == 7        \* characters of a seed string given to the hash loop
MaxAppResumes == 2     \* resume() calls of the application waiting on the host at once

----------------------------------------------------------------------------
(* Numbers *)

One == 2000000

Range(s) == {s[i] : i \in DOMAIN s}

----------------------------------------------------------------------------
(* Inputs: the musical parameters and identifiers the caller passes *)

ParamA == [scale |-> "minor", baseFrequency |-> 220, tempo |-> 80,
           complexity |-> One \div 2, mood |-> "melancholic"]

ParamB == [scale |-> "chromatic", baseFrequency |-> 440, tempo |-> 120,
           complexity |-> One \div 10, mood |-> "ethereal"]

ParamSet == {ParamA, ParamB}

\* identifiers as sequences of UTF-16 code units: "a" and "b"
Seeds == {<<97>>, <<98>>}

----------------------------------------------------------------------------
(* Scale table *)

scales == [major      |-> <<0, 2, 4, 5, 7, 9, 11, 12>>,
           minor      |-> <<0, 2, 3, 5, 7, 8, 10, 12>>,
           pentatonic |-> <<0, 2, 4, 7, 9, 12, 14, 16>>,
           mystic     |-> <<0, 2, 4, 6, 9, 11, 12>>,
           dream      |-> <<0, 2, 4, 5, 7, 9, 11>>]

\* a melody that looks the scale parameter up in the table and falls back to
\* pentatonic only for names the table does not have
MelodyScaleName_Lookup(p) == IF p.scale \in DOMAIN scales THEN p.scale ELSE "pentatonic"

\* const scaleName = params.scale === 'minor' ? 'minor' : 'pentatonic'
MelodyScaleName(p) == IF p.scale = "minor" THEN "minor" ELSE "pentatonic"

----------------------------------------------------------------------------
(* Seeded sequence generator *)

\* The hash is a JavaScript number and is not confined to 32 bits, so it is
\* kept as a pair of 16-bit limbs: the number is hi * Limb + lo, 0 <= lo < Limb.
Limb == 65536

\* the pair of the number hi * Limb + lo, for any integers hi and lo
Wide(hi, lo) == [hi |-> hi + (lo \div Limb), lo |-> lo % Limb]

\* the pair of a number that fits a machine integer, and back
ToWide(n) == Wide(0, n)
FromWide(w) == w.hi * Limb + w.lo

\* a shift that keeps every bit of hash * 32
Shl5_NoWrap(w) == Wide(32 * w.hi, 32 * w.lo)

\* hash << 5 : the 32-bit two's complement value of hash * 32
Shl5(w) ==
    LET x   == 32 * w.lo
        top == (32 * w.hi + (x \div Limb)) % Limb
    IN  [hi |-> IF top >= Limb \div 2 THEN top - Limb ELSE top, lo |-> x % Limb]

\* charCode + ((hash << 5) - hash) : the JavaScript sum and difference are exact
HashStep(w, code) ==
    LET s == Shl5(w)
    IN  Wide(s.hi - w.hi, code + s.lo - w.lo)

\* for (i...) hash = seed.charCodeAt(i) + ((hash << 5) - hash)
RECURSIVE HashFrom(_, _)
HashFrom(w, seed) ==
    IF seed = <<>> THEN w
    ELSE HashFrom(HashStep(w, Head(seed)), Tail(seed))

\* a generator whose hash also depends on how many sessions were started before
SeedHash_CarriesOver(seed) == FromWide(HashFrom(ToWide(0), seed)) + (Len(calls) - 1)

\* let hash = 0; for (...) {...} : the counter the closure starts from
SeedHash(seed) == FromWide(HashFrom(ToWide(0), seed))

\* x = Math.sin(h) * 10000; x - Math.floor(x), tabulated for h = 97 .. 139
\* (entry = 2 * floor(frac * 1e6) + 1)
DrawTable ==
    <<154781, 362561, 1863317, 687177, 515743, 535827, 1772629, 1551937,
      1294329, 1149999, 1634891, 370109, 852133, 1146439, 971027, 87913,
      361883, 1607773, 706681, 1227867, 41181, 956619, 1917971, 223685,
      304495, 263077, 1930187, 260263, 1190817, 1816513, 601345, 754211,
      532159, 1880997, 1932257, 1671743, 1315125, 496329, 1373723, 1335865,
      1710909, 954809, 1602625>>

\* the value the closure returns when its counter is h (the counter then becomes h + 1)
Draw(h) == DrawTable[h - 96]

----------------------------------------------------------------------------
(* Pad voice *)

\* const chordOffsets = [1, 1.5, 1.25], in hundredths
chordOffsets == <<100, 150, 125>>

PadDraws == 2 * Len(chordOffsets)

\* osc.type = rng() > 0.5 ? 'sine' : 'triangle'
PadWave(d) == IF d > One \div 2 THEN "sine" ELSE "triangle"

\* lfo.frequency.value = 0.1 + rng() * 0.2, in units of 1e-7 Hz
LfoRate(d) == One \div 2 + d

\* osc.frequency.value = (params.baseFrequency / 2) * mult, in hundredths of a Hz
PadFreq(p, k) == (p.baseFrequency * chordOffsets[k]) \div 2

\* an injected stream returns draws[1], draws[2], ... and starts over after the last
StreamAt(draws, i) == draws[((i - 1) % Len(draws)) + 1]

\* the seed "a" a harness run passes to play()
HarnessSeed == <<97>>

\* A "ticks" harness run replaces getRandomFromSeed by a stub: the closure it
\* returns answers its first six calls (the pad's) with 0.2 and its later calls
\* with the injected stream, from the stream's first value on.  k counts the
\* calls of the closure from 1.
StubDraw(k) ==
    IF k <= PadDraws THEN One \div 5 ELSE StreamAt(harness.draws, k - PadDraws)

\* the value the session's rng returns when its counter is h: the closure of
\* getRandomFromSeed, or the stub of a "ticks" harness run, whose counter the
\* model starts at the hash of the harness seed
Rng(h) ==
    IF harness.fn = "ticks" THEN StubDraw(h - SeedHash(HarnessSeed) + 1) ELSE Draw(h)

\* the voices startPad creates for call c with the rng counter at h: for the
\* k-th chord tone the oscillator <<c, 2k-1>> and its LFO <<c, 2k>>
PadVoice(c, j, h, g) ==
    LET k == (j + 1) \div 2
    IN  IF j % 2 = 1
        THEN [kind |-> "osc", wave |-> PadWave(Rng(h + j - 1)),
              freq |-> PadFreq(calls[c].params, k), rate |-> 0,
              dest |-> g, running |-> TRUE, connected |-> TRUE, releases |-> 0]
        ELSE [kind |-> "lfo", wave |-> "sine", freq |-> 0,
              rate |-> LfoRate(Rng(h + j - 1)),
              dest |-> g, running |-> TRUE, connected |-> TRUE, releases |-> 0]

\* a pad that tracks its three tones and not their modulators
PadIds_TonesOnly(c) == [k \in 1..Len(chordOffsets) |-> <<c, 2 * k - 1>>]

\* this.currentOscillators.push(osc); this.currentOscillators.push(lfo), per tone
PadIds(c) == [j \in 1..PadDraws |-> <<c, j>>]

----------------------------------------------------------------------------
(* Melody scheduler *)

\* the tempo that replaces a falsy params.tempo
DefaultTempo == 80

\* a scheduler without the default: 60 / 0 is Infinity, a delay the host's
\* setInterval takes as 0
TickPeriodMs_AsGiven(p) == IF p.tempo = 0 THEN 0 ELSE 60000 \div p.tempo

\* const bpm = params.tempo || 80; const noteDuration = 60 / bpm;
\* setInterval(..., noteDuration * 1000): the period in milliseconds (exact for
\* the tempos that divide 60000, the only ones the inputs use)
TickPeriodMs(p) ==
    LET bpm == IF p.tempo = 0 THEN DefaultTempo ELSE p.tempo
    IN  60000 \div bpm

\* a tick that also emits when the draw equals 1 - complexity
Emits_NonStrict(d, p) == d >= One - p.complexity

\* a tick that emits when the draw exceeds the complexity
Emits_Inverted(d, p) == d > p.complexity

\* rng() > (1 - params.complexity)
Emits(d, p) == d > One - p.complexity

\* a tick that takes one draw whether it emits or not
DrawsTaken_One(emit) == 1

\* the rng() calls of one live tick: the emission test, and on emission the
\* note index and the octave
DrawsTaken(emit) == IF emit THEN 3 ELSE 1

\* Math.floor(rng() * scaleNotes.length), as a 0-based index
NoteIdx(d, len) == (d * len) \div One

\* rng() > 0.7 ? 2 : 1
Octave(d) == IF d > (7 * One) \div 10 THEN 2 ELSE 1

----------------------------------------------------------------------------
(* stop() *)

\* stop() that forgets clearInterval: the timer stays set in the host
stop_KeepsTimer(raises) ==
    [isPlaying |-> FALSE,
     melodyInterval |-> 0,
     timers |-> timers,
     voices |-> [v \in DOMAIN voices |->
                    IF v \in Range(currentOscillators)
                    THEN [voices[v] EXCEPT !.running = FALSE, !.connected = FALSE,
                                               !.releases = @ + 1]
                    ELSE voices[v]],
     currentOscillators |-> <<>>,
     masterGain |-> 0,
     liveGains |-> liveGains \ {masterGain},
     raised |-> FALSE]

\* stop() that forgets this.currentOscillators = []
stop_KeepsList(raises) ==
    [isPlaying |-> FALSE,
     melodyInterval |-> 0,
     timers |-> [t \in (DOMAIN timers) \ {melodyInterval} |-> timers[t]],
     voices |-> [v \in DOMAIN voices |->
                    IF v \in Range(currentOscillators)
                    THEN [voices[v] EXCEPT !.running = FALSE, !.connected = FALSE,
                                               !.releases = @ + 1]
                    ELSE voices[v]],
     currentOscillators |-> currentOscillators,
     masterGain |-> 0,
     liveGains |-> liveGains \ {masterGain},
     raised |-> FALSE]

\* stop() that forgets this.masterGain = null after disconnecting it
stop_KeepsGain(raises) ==
    [isPlaying |-> FALSE,
     melodyInterval |-> 0,
     timers |-> [t \in (DOMAIN timers) \ {melodyInterval} |-> timers[t]],
     voices |-> [v \in DOMAIN voices |->
                    IF v \in Range(currentOscillators)
                    THEN [voices[v] EXCEPT !.running = FALSE, !.connected = FALSE,
                                               !.releases = @ + 1]
                    ELSE voices[v]],
     currentOscillators |-> <<>>,
     masterGain |-> masterGain,
     liveGains |-> liveGains \ {masterGain},
     raised |-> FALSE]

\* stop() that nulls this.masterGain without disconnecting it first
stop_KeepsConnection(raises) ==
    [isPlaying |-> FALSE,
     melodyInterval |-> 0,
     timers |-> [t \in (DOMAIN timers) \ {melodyInterval} |-> timers[t]],
     voices |-> [v \in DOMAIN voices |->
                    IF v \in Range(currentOscillators)
                    THEN [voices[v] EXCEPT !.running = FALSE, !.connected = FALSE,
                                           !.releases = @ + 1]
                    ELSE voices[v]],
     currentOscillators |-> <<>>,
     masterGain |-> 0,
     liveGains |-> liveGains,
     raised |-> FALSE]

\* stop() without the try/catch: the first o.stop() that throws ends the
\* forEach and the exception leaves stop()
stop_NoCatch(raises) ==
    LET first == IF raises = {} THEN Len(currentOscillators) + 1
                 ELSE CHOOSE i \in raises : \A j \in raises : i <= j
        done == {currentOscillators[i] : i \in 1..(first - 1)}
    IN  [isPlaying |-> FALSE,
         melodyInterval |-> 0,
         timers |-> [t \in (DOMAIN timers) \ {melodyInterval} |-> timers[t]],
         voices |-> [v \in DOMAIN voices |->
                        IF v \in done
                        THEN [voices[v] EXCEPT !.running = FALSE, !.connected = FALSE,
                                               !.releases = @ + 1]
                        ELSE voices[v]],
         currentOscillators |-> IF raises = {} THEN <<>> ELSE currentOscillators,
         masterGain |-> IF raises = {} THEN 0 ELSE masterGain,
         liveGains |-> IF raises = {} THEN liveGains \ {masterGain} ELSE liveGains,
         raised |-> raises # {}]

\* raises: the positions in currentOscillators whose o.stop() throws in the host.
\* try { o.stop(); o.disconnect(); } catch(e){} : a throwing stop() skips the
\* disconnect of that voice and nothing else.
stop(raises) ==
    LET thrown == {currentOscillators[i] : i \in raises}
        tracked == Range(currentOscillators)
    IN  [isPlaying |-> FALSE,
         melodyInterval |-> 0,
         timers |-> [t \in (DOMAIN timers) \ {melodyInterval} |-> timers[t]],
         voices |-> [v \in DOMAIN voices |->
                        IF v \in tracked /\ v \notin thrown
                        THEN [voices[v] EXCEPT !.running = FALSE, !.connected = FALSE,
                                               !.releases = @ + 1]
                        ELSE voices[v]],
         currentOscillators |-> <<>>,
         masterGain |-> 0,
         liveGains |-> liveGains \ {masterGain},
         raised |-> FALSE]

----------------------------------------------------------------------------
(* Initial state: the engine as the constructor leaves it.  The constructor *)
(* finds a backend or not; a context created before any user gesture starts *)
(* suspended, otherwise running.                                            *)

NoFn == [x \in {} |-> x]

\* no harness is attached: the engine runs on its own seeded generator
NoHarness == [fn |-> "none"]

Init ==
    /\ ctxPresent \in BOOLEAN
    /\ ctxState \in (IF ctxPresent THEN {"suspended", "running"} ELSE {"none"})
    /\ isPlaying = FALSE
    /\ masterGain = 0
    /\ melodyInterval = 0
    /\ reverbNode = 0
    /\ delayNode = 0
    /\ currentOscillators = <<>>
    /\ calls = <<>>
    /\ voices = NoFn
    /\ timers = NoFn
    /\ liveGains = {}
    /\ notes = <<>>
    /\ microQ = <<>>
    /\ pending = <<>>
    /\ stopError = FALSE
    /\ harness = NoHarness

----------------------------------------------------------------------------
(* play(): from the call to the first suspension, await this.resume() *)

\* ticks: what the live ticks of the call's timer did so far, oldest first;
\* nodes: how many audio nodes the call has made so far through this.ctx.create*
\* (in play() itself, in setupEffects, in startPad and in its tick callback);
\* timersSet: how many timers it has registered (setInterval and setTimeout);
\* seeded: whether it has made its rng closure.  None of the three is ever
\* taken back: stop() releases what was made, it does not unmake it.
NewCall(p, id, at) ==
    [params |-> p, seed |-> id, pc |-> at, seeded |-> FALSE, rng |-> 0, ticks |-> <<>>,
     nodes |-> 0, timersSet |-> 0]

\* play() without its first line, if (!this.ctx) return;
NoBackend_Unchecked == FALSE

\* if (!this.ctx) return;
NoBackend == ~ctxPresent

play(p, id) ==
    LET c == Len(calls) + 1
    IN  /\ Len(calls) < MaxCalls
        /\ IF NoBackend
           THEN /\ calls' = Append(calls, NewCall(p, id, "done"))
                /\ UNCHANGED <<microQ, pending>>
           ELSE /\ calls' = Append(calls, NewCall(p, id, "resume"))
                /\ IF ctxState = "suspended"
                   THEN /\ pending' = Append(pending, c)      \* await this.ctx.resume()
                        /\ UNCHANGED microQ
                   ELSE /\ microQ' = Append(microQ, <<"play", c>>)
                        /\ UNCHANGED pending
        /\ UNCHANGED <<harness, ctxPresent, ctxState, engineVars, hostVars, stopError>>

PlayCall == \E p \in ParamSet, id \in Seeds : play(p, id)

\* resume() called by the application itself (App.handleStart, handleCreateMemory);
\* 0 in pending stands for a ctx.resume() promise no play() call waits for
AppResumes(q) == Cardinality({i \in DOMAIN q : q[i] = 0})

resume ==
    /\ IF ctxPresent /\ ctxState = "suspended"
       THEN /\ AppResumes(pending) < MaxAppResumes
            /\ pending' = Append(pending, 0)      \* await this.ctx.resume()
       ELSE UNCHANGED pending
    /\ UNCHANGED <<harness, ctxPresent, ctxState, engineVars, calls, hostVars, microQ, stopError>>

ResumeCall == resume

----------------------------------------------------------------------------
(* The backend settles ctx.resume(), or suspends the context (host tasks) *)

ResumeConts(q) == [i \in 1..Len(q) |-> <<"resume", q[i]>>]

IsPlayCall(c) == c # 0

\* the context starts: every pending promise is resolved, in call order
ResumeSucceed ==
    /\ microQ = <<>>
    /\ pending # <<>>
    /\ ctxState' = "running"
    /\ microQ' = ResumeConts(SelectSeq(pending, IsPlayCall))
    /\ pending' = <<>>
    /\ UNCHANGED <<harness, ctxPresent, engineVars, calls, hostVars, stopError>>

\* the host rejects the oldest pending promise: the continuation of resume()
\* that awaits it is queued with the error (a promise of a resume() the
\* application called itself has no play() call behind it)
ResumeFail ==
    /\ microQ = <<>>
    /\ pending # <<>>
    /\ pending' = Tail(pending)
    /\ microQ' = IF Head(pending) = 0 THEN microQ
                 ELSE Append(microQ, <<"resumeThrow", Head(pending)>>)
    /\ UNCHANGED <<harness, ctxPresent, ctxState, engineVars, calls, hostVars, stopError>>

\* the host suspends a running context (interruption, backgrounding)
HostSuspend ==
    /\ microQ = <<>>
    /\ ctxPresent
    /\ ctxState = "running"
    /\ ctxState' = "suspended"
    /\ UNCHANGED <<harness, ctxPresent, engineVars, calls, hostVars, microQ, pending, stopError>>

\* resume() continues after await this.ctx.resume(): it returns, or it throws
\* the error of the rejected promise; the play() call awaiting it is queued
ResumeCont ==
    /\ microQ # <<>>
    /\ Head(microQ)[1] \in {"resume", "resumeThrow"}
    /\ microQ' = Append(Tail(microQ),
                        <<IF Head(microQ)[1] = "resume" THEN "play" ELSE "playThrow",
                          Head(microQ)[2]>>)
    /\ UNCHANGED <<harness, ctxPresent, ctxState, engineVars, calls, hostVars, pending, stopError>>

\* play() that catches the rejection of this.resume() and returns normally
PlayRejected_Swallowed ==
    /\ microQ # <<>>
    /\ Head(microQ)[1] = "playThrow"
    /\ calls' = [calls EXCEPT ![Head(microQ)[2]].pc = "done"]
    /\ microQ' = Tail(microQ)
    /\ UNCHANGED <<harness, ctxPresent, ctxState, engineVars, hostVars, pending, stopError>>

\* play() continues after await this.resume() with the error: nothing in
\* play() catches it, so the promise play() returned is rejected
PlayRejected ==
    /\ microQ # <<>>
    /\ Head(microQ)[1] = "playThrow"
    /\ calls' = [calls EXCEPT ![Head(microQ)[2]].pc = "rejected"]
    /\ microQ' = Tail(microQ)
    /\ UNCHANGED <<harness, ctxPresent, ctxState, engineVars, hostVars, pending, stopError>>

----------------------------------------------------------------------------
(* play(): from await this.resume() to the second suspension, *)
(* await this.setupEffects()                                   *)

\* setupEffects() that builds a reverb and a delay on every call
setupEffects_Rebuilds(c, mg) ==
    IF ~ctxPresent \/ mg = 0
    THEN [reverbNode |-> reverbNode, delayNode |-> delayNode, nodes |-> 0]
    ELSE [reverbNode |-> c, delayNode |-> c, nodes |-> 4]

\* setupEffects() when this.masterGain is mg and the units it may build get id c:
\* each unit is built only if (!this.reverbNode) / if (!this.delayNode).
\* nodes: the nodes this run makes: the convolver (createConvolver), the delay
\* and its feedback gain (createDelay, createGain), and on every run the wet
\* gain (createGain), which nothing in the engine refers to again.
setupEffects(c, mg) ==
    IF ~ctxPresent \/ mg = 0
    THEN [reverbNode |-> reverbNode, delayNode |-> delayNode, nodes |-> 0]
    ELSE [reverbNode |-> IF reverbNode = 0 THEN c ELSE reverbNode,
          delayNode  |-> IF delayNode = 0 THEN c ELSE delayNode,
          nodes      |-> (IF reverbNode = 0 THEN 1 ELSE 0)
                         + (IF delayNode = 0 THEN 2 ELSE 0) + 1]

\* this.stop(); this.masterGain = createGain(); ...connect(destination);
\* await this.setupEffects()
playAfterResume(c, raises) ==
    LET s == stop(raises)
        fx == setupEffects(c, c)
    IN  /\ microQ # <<>>
        /\ Head(microQ) = <<"play", c>>
        /\ isPlaying' = s.isPlaying
        /\ melodyInterval' = s.melodyInterval
        /\ timers' = s.timers
        /\ voices' = s.voices
        /\ stopError' = s.raised
        /\ IF s.raised
           THEN \* an exception out of stop() rejects play()
                /\ currentOscillators' = s.currentOscillators
                /\ masterGain' = s.masterGain
                /\ liveGains' = s.liveGains
                /\ calls' = [calls EXCEPT ![c].pc = "rejected"]
                /\ microQ' = Tail(microQ)
                /\ UNCHANGED <<reverbNode, delayNode>>
           ELSE /\ currentOscillators' = s.currentOscillators
                /\ masterGain' = c
                /\ liveGains' = s.liveGains \cup {c}
                /\ reverbNode' = fx.reverbNode
                /\ delayNode' = fx.delayNode
                \* createGain() of the master gain, then what setupEffects makes
                /\ calls' = [calls EXCEPT ![c].pc = "effects",
                                           ![c].nodes = @ + 1 + fx.nodes]
                /\ microQ' = Append(Tail(microQ), <<"effects", c>>)
        /\ UNCHANGED <<harness, ctxPresent, ctxState, notes, pending>>

PlayAfterResume == \E c \in 1..Len(calls) : playAfterResume(c, {})

----------------------------------------------------------------------------
(* play(): from await this.setupEffects() to the end *)

\* startPad(params, rng): if (!this.ctx || !this.masterGain) return;
PadStarts == ctxPresent /\ masterGain # 0

\* the nodes startPad makes: for each of the three chord offsets an oscillator,
\* its gain, an LFO and the LFO's gain
PadNodes == 3 * 4

\* the nodes an emitting tick makes: the tone's oscillator and its envelope gain
NoteNodes == 2

\* const rng = getRandomFromSeed(memoryId); startPad; startGenerativeMelody;
\* this.isPlaying = true
playAfterEffects(c) ==
    LET h0 == SeedHash(calls[c].seed)
        h1 == IF PadStarts THEN h0 + PadDraws ELSE h0
    IN  /\ microQ # <<>>
        /\ Head(microQ) = <<"effects", c>>
        /\ IF PadStarts
           THEN /\ voices' = [v \in DOMAIN voices \cup Range(PadIds(c)) |->
                                IF v \in Range(PadIds(c))
                                THEN PadVoice(c, v[2], h0, masterGain)
                                ELSE voices[v]]
                /\ currentOscillators' = currentOscillators \o PadIds(c)
           ELSE UNCHANGED <<voices, currentOscillators>>
        \* startGenerativeMelody: if (!this.ctx) return; cannot be taken here
        /\ melodyInterval' = c
        /\ timers' = [t \in DOMAIN timers \cup {c} |->
                        IF t = c
                        THEN [period |-> TickPeriodMs(calls[c].params),
                              scaleName |-> MelodyScaleName(calls[c].params)]
                        ELSE timers[t]]
        /\ isPlaying' = TRUE
        \* the rng closure, the pad's nodes if startPad ran, and setInterval
        /\ calls' = [calls EXCEPT ![c].pc = "done", ![c].seeded = TRUE, ![c].rng = h1,
                                   ![c].nodes = @ + (IF PadStarts THEN PadNodes ELSE 0),
                                   ![c].timersSet = @ + 1]
        /\ microQ' = Tail(microQ)
        /\ UNCHANGED <<harness, ctxPresent, ctxState, masterGain, reverbNode, delayNode,
                       liveGains, notes, pending, stopError>>

PlayAfterEffects == \E c \in 1..Len(calls) : playAfterEffects(c)

----------------------------------------------------------------------------
(* The melody tick: the setInterval callback of timer t, created by call t *)

\* a tick callback without its first line, the liveness check
TickIdle_Unchecked == FALSE

\* if (!this.isPlaying || !this.ctx || !this.masterGain) return;
TickIdle == ~isPlaying \/ ~ctxPresent \/ masterGain = 0

\* what one live tick did: draw is the position in the session's stream of the
\* draw that decided the emission (1 is the first value the closure returned)
TickRecord(t, h, emit) ==
    [draw |-> h - SeedHash(calls[t].seed) + 1,
     emit |-> emit,
     noteIdx |-> IF emit THEN NoteIdx(Rng(h + 1), Len(scales[timers[t].scaleName])) ELSE 0,
     octave |-> IF emit THEN Octave(Rng(h + 2)) ELSE 0]

\* osc.stop(t + 2.0): the tone's life in milliseconds of the audio clock
NoteLifeMs == 2000

\* setTimeout(..., 2100): the delay of the release in milliseconds
ReleaseDelayMs == 2100

\* stopAt, releaseAt: when the tone's stop and the release are scheduled, in
\* milliseconds after the emission; releases: how often the release has run
NewNote(t, d2, d3) ==
    LET table == scales[timers[t].scaleName]
        idx == NoteIdx(d2, Len(table))
    IN  [timer |-> t, dest |-> masterGain, scaleName |-> timers[t].scaleName,
         noteIdx |-> idx, semitones |-> table[idx + 1], octave |-> Octave(d3),
         running |-> TRUE, connected |-> TRUE,
         stopAt |-> NoteLifeMs, releaseAt |-> ReleaseDelayMs, releases |-> 0]

tick(t) ==
    LET h == calls[t].rng
        p == calls[t].params
    IN  IF TickIdle
        THEN UNCHANGED vars
        ELSE /\ IF harness.fn = "ticks"
                THEN Len(calls[t].ticks) < MaxTicks
                ELSE h + 3 - SeedHash(calls[t].seed) <= PadDraws + MaxMelodyDraws
             /\ IF Emits(Rng(h), p)
                THEN /\ Len(notes) < MaxNotes
                     /\ notes' = Append(notes, NewNote(t, Rng(h + 1), Rng(h + 2)))
                     \* createOscillator, createGain and the setTimeout
                     /\ calls' = [calls EXCEPT ![t].rng = h + DrawsTaken(TRUE),
                                                ![t].ticks = Append(@, TickRecord(t, h, TRUE)),
                                                ![t].nodes = @ + NoteNodes,
                                                ![t].timersSet = @ + 1]
                ELSE /\ calls' = [calls EXCEPT ![t].rng = h + DrawsTaken(FALSE),
                                                ![t].ticks = Append(@, TickRecord(t, h, FALSE))]
                     /\ UNCHANGED notes
             /\ UNCHANGED <<harness, ctxPresent, ctxState, engineVars, voices, timers,
                            liveGains, microQ, pending, stopError>>

\* a timer callback is a host task: it runs only when no microtask is queued
Tick == \E t \in DOMAIN timers : microQ = <<>> /\ tick(t)

\* osc.stop(t + 2.0): the audio clock, which advances only while the context
\* runs, ends the tone; every tone lasts 2.0 s of that clock, so the tones end
\* in the order of their emission
NoteEnd ==
    \E i \in 1..Len(notes) :
        /\ ctxState = "running"
        /\ notes[i].running
        /\ \A j \in 1..(i - 1) : ~notes[j].running
        /\ notes' = [notes EXCEPT ![i].running = FALSE]
        /\ UNCHANGED <<harness, ctxPresent, ctxState, engineVars, calls, voices, timers,
                       liveGains, microQ, pending, stopError>>

\* a release that stop() cancels: it runs only while the note's master gain
\* still has its output connections
NoteRelease_CancelledByStop ==
    \E i \in 1..Len(notes) :
        /\ microQ = <<>>
        /\ notes[i].connected
        /\ \A j \in 1..(i - 1) : ~notes[j].connected
        /\ notes[i].dest \in liveGains
        /\ notes' = [notes EXCEPT ![i].connected = FALSE, ![i].releases = @ + 1]
        /\ UNCHANGED <<harness, ctxPresent, ctxState, engineVars, calls, voices, timers,
                       liveGains, microQ, pending, stopError>>

\* setTimeout(() => { osc.disconnect(); env.disconnect(); }, 2100): a one-shot
\* host timer that nothing cancels; the delay is the same for every note, so
\* the timeouts run in the order of the emissions
NoteRelease ==
    \E i \in 1..Len(notes) :
        /\ microQ = <<>>
        /\ notes[i].connected
        /\ \A j \in 1..(i - 1) : ~notes[j].connected
        /\ notes' = [notes EXCEPT ![i].connected = FALSE, ![i].releases = @ + 1]
        /\ UNCHANGED <<harness, ctxPresent, ctxState, engineVars, calls, voices, timers,
                       liveGains, microQ, pending, stopError>>

----------------------------------------------------------------------------
(* stop() called by the application *)

\* stop() that also discards the effects bus
stopWith_DropsEffects(raises) ==
    LET s == stop(raises)
    IN  /\ UNCHANGED <<harness, ctxPresent, ctxState, calls, notes, microQ, pending>>
        /\ isPlaying' = s.isPlaying
        /\ melodyInterval' = s.melodyInterval
        /\ timers' = s.timers
        /\ voices' = s.voices
        /\ currentOscillators' = s.currentOscillators
        /\ masterGain' = s.masterGain
        /\ liveGains' = s.liveGains
        /\ stopError' = s.raised
        /\ reverbNode' = 0
        /\ delayNode' = 0

stopWith(raises) ==
    LET s == stop(raises)
    IN  /\ UNCHANGED <<harness, ctxPresent, ctxState, reverbNode, delayNode, calls, notes,
                       microQ, pending>>
        /\ isPlaying' = s.isPlaying
        /\ melodyInterval' = s.melodyInterval
        /\ timers' = s.timers
        /\ voices' = s.voices
        /\ currentOscillators' = s.currentOscillators
        /\ masterGain' = s.masterGain
        /\ liveGains' = s.liveGains
        /\ stopError' = s.raised

StopCall == stopWith({})

----------------------------------------------------------------------------
(* Spec: any caller (calls may come from tasks or from microtasks of the   *)
(* caller's own), a host whose stop() never raises on a started oscillator *)

Next ==
    \/ PlayCall
    \/ ResumeCall
    \/ StopCall
    \/ ResumeSucceed
    \/ ResumeFail
    \/ HostSuspend
    \/ ResumeCont
    \/ PlayRejected
    \/ PlayAfterResume
    \/ PlayAfterEffects
    \/ Tick
    \/ NoteEnd
    \/ NoteRelease

Spec == Init /\ [][Next]_vars

----------------------------------------------------------------------------
(* SpecSeq: a caller that awaits every call before it makes the next one, *)
(* so that no two calls overlap                                            *)

\* no play() call is between its call and its settlement
Settled == \A c \in 1..Len(calls) : calls[c].pc \in {"done", "rejected"}

Quiet == Settled /\ 0 \notin Range(pending) /\ microQ = <<>>

PlayCallSeq == Quiet /\ PlayCall

ResumeCallSeq == Quiet /\ ResumeCall

StopCallSeq == Quiet /\ StopCall

NextSeq ==
    \/ PlayCallSeq
    \/ ResumeCallSeq
    \/ StopCallSeq
    \/ ResumeSucceed
    \/ ResumeFail
    \/ HostSuspend
    \/ ResumeCont
    \/ PlayRejected
    \/ PlayAfterResume
    \/ PlayAfterEffects
    \/ Tick
    \/ NoteEnd
    \/ NoteRelease

SpecSeq == Init /\ [][NextSeq]_vars

\* SpecSeqFair: as SpecSeq, on a host that keeps running: queued microtasks are
\* run and a timeout that is due fires
SpecSeqFair ==
    /\ SpecSeq
    /\ WF_vars(ResumeCont)
    /\ WF_vars(PlayRejected)
    /\ WF_vars(PlayAfterResume)
    /\ WF_vars(PlayAfterEffects)
    /\ WF_vars(NoteRelease)

----------------------------------------------------------------------------
(* SpecPair: a caller that calls play() twice in the same task, the second *)
(* call right after the first returned its promise, and nothing else       *)

FirstUntouched ==
    /\ Len(calls) = 1
    /\ calls[1].pc = "resume"
    /\ \/ microQ = << <<"play", 1>> >> /\ pending = <<>>
       \/ microQ = <<>> /\ pending = <<1>>

PlayCallFirst == calls = <<>> /\ PlayCall

PlayCallSecond == FirstUntouched /\ PlayCall

NextPair ==
    \/ PlayCallFirst
    \/ PlayCallSecond
    \/ ResumeSucceed
    \/ ResumeFail
    \/ HostSuspend
    \/ ResumeCont
    \/ PlayRejected
    \/ PlayAfterResume
    \/ PlayAfterEffects
    \/ Tick
    \/ NoteEnd
    \/ NoteRelease

SpecPair == Init /\ [][NextPair]_vars

----------------------------------------------------------------------------
(* SpecLeave: the application of App.tsx in its experience view, until the    *)
(* "Add Another Memory" button takes it back to the create view: the click    *)
(* calls stop() and no play() follows it                                       *)

\* the view of the application after the click: setView('create')
LeftView == [fn |-> "left"]

PlayCallStay == harness = NoHarness /\ PlayCall

ResumeCallStay == harness = NoHarness /\ ResumeCall

StopCallStay == harness = NoHarness /\ StopCall

\* onClick={() => { setView('create'); ...; audioEngine.stop(); setIsPlaying(false); }}
\* clicked while a play() call has not finished; a click is a task, so no
\* microtask is queued when it runs
LeaveStop ==
    LET s == stop({})
    IN  /\ harness = NoHarness
        /\ ~Settled
        /\ microQ = <<>>
        /\ harness' = LeftView
        /\ isPlaying' = s.isPlaying
        /\ melodyInterval' = s.melodyInterval
        /\ timers' = s.timers
        /\ voices' = s.voices
        /\ currentOscillators' = s.currentOscillators
        /\ masterGain' = s.masterGain
        /\ liveGains' = s.liveGains
        /\ stopError' = s.raised
        /\ UNCHANGED <<ctxPresent, ctxState, reverbNode, delayNode, calls, notes,
                       microQ, pending>>

NextLeave ==
    \/ PlayCallStay
    \/ ResumeCallStay
    \/ StopCallStay
    \/ LeaveStop
    \/ ResumeSucceed
    \/ ResumeFail
    \/ HostSuspend
    \/ ResumeCont
    \/ PlayRejected
    \/ PlayAfterResume
    \/ PlayAfterEffects
    \/ Tick
    \/ NoteEnd
    \/ NoteRelease

SpecLeave == Init /\ [][NextLeave]_vars

----------------------------------------------------------------------------
(* SpecThrow: as SpecSeq, on a host where stopping a tracked voice may raise *)

\* the subsets of S with at most n elements
RECURSIVE SubsetsUpTo(_, _)
SubsetsUpTo(S, n) ==
    IF n = 0 THEN {{}}
    ELSE LET smaller == SubsetsUpTo(S, n - 1)
         IN  smaller \cup {r \cup {x} : r \in smaller, x \in S}

RaiseSets == SubsetsUpTo(1..Len(currentOscillators), MaxRaise)

StopCallThrow == \E raises \in RaiseSets : Quiet /\ stopWith(raises)

PlayAfterResumeThrow ==
    \E c \in 1..Len(calls) : \E raises \in RaiseSets : playAfterResume(c, raises)

PlayCallThrow == Len(calls) < MaxThrowCalls /\ PlayCallSeq

NextThrow ==
    \/ PlayCallThrow
    \/ ResumeCallSeq
    \/ StopCallThrow
    \/ ResumeSucceed
    \/ ResumeFail
    \/ HostSuspend
    \/ ResumeCont
    \/ PlayRejected
    \/ PlayAfterResumeThrow
    \/ PlayAfterEffects
    \/ Tick
    \/ NoteEnd
    \/ NoteRelease

SpecThrow == Init /\ [][NextThrow]_vars

----------------------------------------------------------------------------
(* SpecHarness: the melody layer on its own, as a test drives it: the       *)
(* parameters are chosen freely and the rng is an injected stream of draws  *)

\* the scale names the parameter schema allows, and one it does not
ScaleNames == {"major", "minor", "pentatonic", "chromatic", "wholeTone", "blues"}

Tempos == {0, 50, 60, 80, 100, 120}

HarnessParams ==
    [scale : ScaleNames, baseFrequency : {220}, tempo : Tempos,
     complexity : {One \div 2}, mood : {"ethereal"}]

Complexities == {One \div 10, One \div 2, One}

\* 0.2, 0.3, 0.7, 0.9, 0.95
InjectedDraws ==
    {One \div 5, (3 * One) \div 10, (7 * One) \div 10, (9 * One) \div 10, (19 * One) \div 20}

\* n successive live ticks of the interval callback, the first one taking the
\* i-th value of the stream: what each tick did, as in TickRecord
RECURSIVE MelodyRun(_, _, _, _)
MelodyRun(draws, p, i, n) ==
    IF n = 0 THEN <<>>
    ELSE LET emit == Emits(StreamAt(draws, i), p)
             len == Len(scales[MelodyScaleName(p)])
         IN  <<[draw |-> i,
                emit |-> emit,
                noteIdx |-> IF emit THEN NoteIdx(StreamAt(draws, i + 1), len) ELSE 0,
                octave |-> IF emit THEN Octave(StreamAt(draws, i + 2)) ELSE 0]>>
             \o MelodyRun(draws, p, i + DrawsTaken(emit), n - 1)

\* seed strings given to the hash loop: the digit "0" and the letter "a", as in
\* the memory ids (decimal digits) and the sample seeds
SeedChars == {48, 97}
SeedStrings == UNION {[1..n -> SeedChars] : n \in 1..MaxSeedLen}

\* a "start" run calls startGenerativeMelody with the parameters params; a
\* "ticks" run calls play(params, "a") with the rng stubbed to the stream draws
\* and lets the session tick; a "hash" run hashes the seed
HarnessInputs ==
    {[fn |-> "start", params |-> p, ran |-> FALSE] : p \in HarnessParams}
    \cup {[fn |-> "ticks", params |-> [ParamA EXCEPT !.complexity = c], draws |-> d] :
              d \in [1..DrawLen -> InjectedDraws], c \in Complexities}
    \cup {[fn |-> "hash", seed |-> s, ran |-> FALSE] : s \in SeedStrings}

\* the engine as its constructor leaves it, on a host whose context runs
InitHarness ==
    /\ harness \in HarnessInputs
    /\ ctxPresent = TRUE
    /\ ctxState = "running"
    /\ isPlaying = FALSE
    /\ masterGain = 0
    /\ melodyInterval = 0
    /\ reverbNode = 0
    /\ delayNode = 0
    /\ currentOscillators = <<>>
    /\ calls = <<>>
    /\ voices = NoFn
    /\ timers = NoFn
    /\ liveGains = {}
    /\ notes = <<>>
    /\ microQ = <<>>
    /\ pending = <<>>
    /\ stopError = FALSE

\* startGenerativeMelody(params, rng): the table and the period it chooses, and
\* the interval timer (handle 1) it registers in this.melodyInterval
HarnessStart ==
    LET p == harness.params
    IN  /\ harness.fn = "start"
        /\ ctxPresent
        /\ melodyInterval = 0
        /\ melodyInterval' = 1
        /\ timers' = [t \in {1} |-> [period |-> TickPeriodMs(p),
                                     scaleName |-> MelodyScaleName(p)]]
        /\ harness' = [fn |-> "start", params |-> p, ran |-> TRUE,
                       scaleName |-> MelodyScaleName(p),
                       scaleNotes |-> scales[MelodyScaleName(p)],
                       period |-> TickPeriodMs(p)]
        /\ UNCHANGED <<ctxPresent, ctxState, isPlaying, masterGain, reverbNode, delayNode,
                       currentOscillators, calls, voices, liveGains, notes, microQ,
                       pending, stopError>>

\* the one play() call of a "ticks" run
HarnessPlay ==
    /\ harness.fn = "ticks"
    /\ calls = <<>>
    /\ play(harness.params, HarnessSeed)

\* the hash loop of getRandomFromSeed: the value of hash after each character
HarnessHash ==
    /\ harness.fn = "hash"
    /\ ~harness.ran
    /\ harness' = [fn |-> "hash", seed |-> harness.seed, ran |-> TRUE,
                   out |-> [k \in 1..Len(harness.seed) |->
                              HashFrom(ToWide(0), SubSeq(harness.seed, 1, k))]]
    /\ UNCHANGED <<ctxPresent, ctxState, engineVars, calls, hostVars, microQ, pending,
                   stopError>>

\* after play() the session runs by the engine's own steps
NextHarness ==
    \/ HarnessStart
    \/ HarnessHash
    \/ HarnessPlay
    \/ PlayAfterResume
    \/ PlayAfterEffects
    \/ Tick
    \/ NoteEnd
    \/ NoteRelease

SpecHarness == InitHarness /\ [][NextHarness]_vars

----------------------------------------------------------------------------
(* Vocabulary of the properties *)

\* the signed 32-bit reduction of a number, and the numbers it leaves alone
ToInt32(w) ==
    LET top == w.hi % Limb
    IN  [hi |-> IF top >= Limb \div 2 THEN top - Limb ELSE top, lo |-> w.lo]
InInt32(w) == ToInt32(w) = w

\* hash * 31 + code, exactly
Fold31(w, code) == Wide(31 * w.hi, 31 * w.lo + code)

\* a "ticks" harness run in which at least one live tick has fired
TicksRan == harness.fn = "ticks" /\ calls # <<>> /\ calls[1].ticks # <<>>

\* what the ticks of a "ticks" harness run did so far, the position of each
\* tick's first draw counted in the injected stream (the pad's six draws, which
\* the stub answers before the stream starts, not counted)
HarnessRun ==
    [k \in 1..Len(calls[1].ticks) |-> [calls[1].ticks[k] EXCEPT !.draw = @ - PadDraws]]

\* the position in the injected stream of the next draw of a "ticks" run
HarnessPos == calls[1].rng - SeedHash(HarnessSeed) + 1 - PadDraws

\* the runs of a "ticks" harness with each complexity over as many ticks as
\* have fired: the ticks it recorded for its own complexity, and for another
\* complexity the ticks the callback makes on the same stream
HarnessOut ==
    [c \in Complexities |->
        IF c = harness.params.complexity THEN HarnessRun
        ELSE MelodyRun(harness.draws, [ParamA EXCEPT !.complexity = c], 1,
                       Len(HarnessRun))]

\* the hash before character k of a hash run
HashBefore(k) == IF k = 1 THEN ToWide(0) ELSE harness.out[k - 1]

\* call c still has something live in the host: its tick timer, one of its
\* pad voices, or its master gain
Alive(c) ==
    \/ c \in DOMAIN timers
    \/ c \in liveGains
    \/ \E v \in DOMAIN voices : v[1] = c /\ voices[v].running

AliveCalls == {c \in 1..Len(calls) : Alive(c)}

\* call c has created nothing, at any time since it was made: no audio node
\* (master, wet or feedback gain, effects unit, pad or note node), no rng and
\* no timer, released since or not; and so nothing in the engine or the host
\* is of its making
OwnsNothing(c) ==
    /\ calls[c].nodes = 0
    /\ calls[c].timersSet = 0
    /\ ~calls[c].seeded
    /\ c \notin DOMAIN timers
    /\ c \notin liveGains
    /\ masterGain # c /\ melodyInterval # c /\ reverbNode # c /\ delayNode # c
    /\ \A v \in DOMAIN voices : v[1] # c
    /\ \A i \in 1..Len(notes) : notes[i].timer # c

\* the engine as stop() leaves it
Stopped ==
    /\ ~isPlaying
    /\ melodyInterval = 0
    /\ currentOscillators = <<>>
    /\ masterGain = 0

\* the number of ticks of a run that emitted a note
EmitCount(run) == Cardinality({k \in DOMAIN run : run[k].emit})

\* the draws 0.9, 0.2, 0.95, 0.3 of the concrete scenario
ScenarioDraws == <<(9 * One) \div 10, One \div 5, (19 * One) \div 20, (3 * One) \div 10>>

\* the harness has played at least n ticks on a stream that begins with the
\* scenario's draws
ScenarioRan(n) ==
    /\ TicksRan
    /\ Len(HarnessRun) >= n
    /\ harness.params.complexity = One \div 2
    /\ SubSeq(harness.draws, 1, Len(ScenarioDraws)) = ScenarioDraws

\* a pad unit or a melody note that still sounds: its oscillator runs and its
\* own gain is connected to a master gain that still has its output connections
Audible(x) == x.running /\ x.connected /\ x.dest \in liveGains

\* this step runs stop(): the application's call, or the one inside play()
StopRuns == StopCall \/ \E c \in 1..Len(calls) : playAfterResume(c, {})

\* the engine and the host hold exactly the session of call c
NormalSession(c) ==
    /\ isPlaying
    /\ masterGain = c /\ c \in liveGains
    /\ currentOscillators = PadIds(c)
    /\ \A v \in DOMAIN voices : voices[v].running <=> v[1] = c
    /\ melodyInterval = c
    /\ DOMAIN timers = {c}

\* calls c and d were given the same identifier and the same parameters
SameInputs(c, d) == calls[c].seed = calls[d].seed /\ calls[c].params = calls[d].params

\* the choices startPad made for call c: timbre, pitch and modulation rate of
\* each unit, in creation order
PadChoices(c) ==
    [j \in {i \in 1..PadDraws : <<c, i>> \in DOMAIN voices} |->
        [wave |-> voices[<<c, j>>].wave,
         freq |-> voices[<<c, j>>].freq,
         rate |-> voices[<<c, j>>].rate]]

----------------------------------------------------------------------------
(* C1 .. C10 *)

\* C1: when play(A, "id1") is immediately followed by play(B, "id2"), then once
\* both calls have finished exactly one pad voice set (6 tracked units) and one
\* tick timer are live, both of the second call, and nothing of the first call
\* is still running.  (Checked under SpecPair; the code violates it.)
C1_NoOverlap ==
    (ctxPresent /\ Len(calls) = 2 /\ calls[1].pc = "done" /\ calls[2].pc = "done")
        => NormalSession(2)

\* C2: with a caller whose calls do not overlap, at no instant are two sessions
\* alive, and the step of play() that creates the new session's master gain
\* leaves nothing of an earlier session alive: flag clear, old timer cancelled,
\* old voices stopped, old gain disconnected.
C2_StopBeforeStart ==
    /\ [](Cardinality(AliveCalls) <= 1)
    /\ [][\A c \in 1..Len(calls) :
            (c \notin liveGains /\ c \in liveGains')
                => /\ ~isPlaying'
                   /\ currentOscillators' = <<>>
                   /\ \A d \in 1..Len(calls) : d # c => ~Alive(d)']_vars

C2_Witness ==
    /\ Len(calls) = 2
    /\ calls[2].pc = "effects"
    /\ 2 \in liveGains
    /\ \E v \in DOMAIN voices : v[1] = 1 /\ ~voices[v].running
    /\ \E i \in 1..Len(notes) : notes[i].timer = 1

\* C3: after stop() the liveness flag is clear, no tick timer is registered in
\* the engine and the one that was is cancelled, the tracked list is empty and
\* every voice that was in it is stopped, the master gain is disconnected and null.
C3_StopPost ==
    [][StopCall =>
        /\ ~isPlaying'
        /\ melodyInterval' = 0
        /\ melodyInterval \notin DOMAIN timers'
        /\ currentOscillators' = <<>>
        /\ \A v \in Range(currentOscillators) :
              ~voices'[v].running /\ ~voices'[v].connected
        /\ masterGain' = 0
        /\ masterGain \notin liveGains']_vars

C3_Witness ==
    /\ Stopped
    /\ Settled
    /\ DOMAIN timers = {}
    /\ liveGains = {}
    /\ DOMAIN voices # {}
    /\ \A v \in DOMAIN voices : ~voices[v].running

\* C4: stop() raises nothing; stop() on an engine that is already stopped (a
\* second stop(), or a stop() before any session) changes no engine or host
\* state; and a play() that runs to its end afterwards leaves a normal active
\* session: flag set, its 6 tracked units, its one tick timer.
C4_StopIdempotent ==
    [][/\ StopCall => ~stopError'
       /\ (StopCall /\ Stopped) => UNCHANGED <<engineVars, hostVars, calls, microQ, pending>>
       /\ \A c \in 1..Len(calls) : playAfterEffects(c) => NormalSession(c)']_vars

C4_Witness ==
    /\ Len(calls) = 2
    /\ calls[1].pc = "done"
    /\ NormalSession(2)
    /\ \E v \in DOMAIN voices : v[1] = 1

\* C5: stop() leaves the effects bus as it is: the reverb unit and the delay
\* unit are the same units after stop() as before.
C5_StopKeepsEffects ==
    [][StopCall => (reverbNode' = reverbNode /\ delayNode' = delayNode)]_vars

C5_Witness ==
    /\ reverbNode # 0
    /\ delayNode # 0
    /\ Stopped
    /\ \E v \in DOMAIN voices : ~voices[v].running

\* C6 as stated: when the backend-resume step inside play() fails, the call
\* completes without raising or rejecting.  (The code rejects.)
C6_NeverRejects == \A c \in 1..Len(calls) : calls[c].pc # "rejected"

\* C6 as amended: when the backend-resume step inside play() fails, play()
\* changes nothing in the engine or the host and never creates anything, and
\* the promise it returned is rejected with the backend's error.
C6_RejectsWithoutEffect ==
    /\ [](\A c \in 1..Len(calls) : calls[c].pc = "rejected" => OwnsNothing(c))
    /\ [][(ResumeFail \/ PlayRejected
            \/ (ResumeCont /\ Head(microQ)[1] = "resumeThrow"))
              => UNCHANGED <<engineVars, hostVars, stopError>>]_vars
    /\ [][\A c \in 1..Len(calls) :
            (microQ # <<>> /\ Head(microQ) = <<"playThrow", c>> /\ microQ' = Tail(microQ))
                => calls'[c].pc = "rejected"]_vars

C6_Witness == \E c \in 1..Len(calls) : calls[c].pc = "rejected"

\* C7: after a play() whose backend-resume step failed, and until the next
\* play(), playback is inert: flag clear, no tick timer, no voice running, also
\* when a session was active when that play() was called.  (Checked under
\* SpecSeq; the code violates it.)
C7_InertAfterFailure ==
    (calls # <<>> /\ calls[Len(calls)].pc = "rejected")
        => /\ ~isPlaying
           /\ DOMAIN timers = {}
           /\ \A v \in DOMAIN voices : ~voices[v].running

\* C8: without a backend, no sequence of resume(), play() and stop() calls
\* raises, creates a node, an rng or a timer, or sets the liveness flag.
C8_DisabledEngine ==
    ~ctxPresent =>
        /\ ~isPlaying /\ masterGain = 0 /\ melodyInterval = 0
        /\ reverbNode = 0 /\ delayNode = 0 /\ currentOscillators = <<>>
        /\ DOMAIN voices = {} /\ DOMAIN timers = {} /\ liveGains = {} /\ notes = <<>>
        /\ microQ = <<>> /\ pending = <<>> /\ ~stopError
        /\ \A c \in 1..Len(calls) : calls[c].pc = "done" /\ OwnsNothing(c)

C8_Witness == ~ctxPresent /\ Len(calls) = MaxCalls

\* C9: when stopping tracked voices raises, stop() lets no error out, stops and
\* disconnects every other tracked voice, empties the tracked list, disconnects
\* and discards the master gain.
C9_StopSwallows ==
    [][\A r \in RaiseSets :
        (Quiet /\ stopWith(r)) =>
            /\ ~stopError'
            /\ ~isPlaying'
            /\ currentOscillators' = <<>>
            /\ masterGain' = 0
            /\ masterGain \notin liveGains'
            /\ \A i \in (1..Len(currentOscillators)) \ r :
                  /\ ~voices'[currentOscillators[i]].running
                  /\ ~voices'[currentOscillators[i]].connected]_vars

C9_Witness ==
    /\ Stopped
    /\ ~stopError
    /\ \E v \in DOMAIN voices : voices[v].running
    /\ \E v \in DOMAIN voices : ~voices[v].running

\* C10: a tick that fires while the liveness flag is clear consumes no draw,
\* creates no note and changes nothing.
C10_IdleTick ==
    [][(~isPlaying /\ \E t \in DOMAIN timers : microQ = <<>> /\ tick(t))
          => UNCHANGED vars]_vars

C10_Witness ==
    /\ ~isPlaying
    /\ microQ = <<>>
    /\ DOMAIN timers # {}

----------------------------------------------------------------------------
(* C11 .. C20 *)

\* C11: two sessions started by non-overlapping play() calls with the same
\* identifier and the same parameters make the same pad choices (timbre, pitch,
\* modulation rate of each unit) and, tick for tick, the same decisions from the
\* same positions of the stream: emit or skip, scale index, octave; after equally
\* many ticks their generators are in the same state.  Whatever was played before.
C11_Deterministic ==
    \A c \in 1..Len(calls) : \A d \in 1..Len(calls) :
        (c < d /\ calls[c].seeded /\ calls[d].seeded /\ SameInputs(c, d))
            => /\ DOMAIN PadChoices(c) = 1..PadDraws
               /\ PadChoices(c) = PadChoices(d)
               /\ \A k \in (DOMAIN calls[c].ticks) \cap (DOMAIN calls[d].ticks) :
                      calls[c].ticks[k] = calls[d].ticks[k]
               /\ Len(calls[c].ticks) = Len(calls[d].ticks)
                      => calls[c].rng = calls[d].rng

C11_Witness ==
    /\ Len(calls) >= 2
    /\ SameInputs(1, 2)
    /\ calls[1].seeded /\ calls[2].seeded
    /\ calls[1].ticks # <<>> /\ calls[2].ticks # <<>>
    /\ calls[2].ticks[1].emit
    /\ \E i \in 1..Len(notes) : notes[i].timer = 2

\* C12: in every session the pad takes exactly draws 1 to 6 of the session's
\* stream, for each of the three tones one timbre draw then one modulation-rate
\* draw, before any melody draw: the first live tick of the session decides its
\* emission with draw 7.  (Checked under Spec; the code violates it.)
C12_PadDrawsFirst ==
    \A c \in 1..Len(calls) :
        calls[c].seeded =>
            LET h0 == SeedHash(calls[c].seed)
            IN  /\ DOMAIN PadChoices(c) = 1..PadDraws
                /\ \A k \in 1..Len(chordOffsets) :
                      /\ voices[<<c, 2 * k - 1>>].wave = PadWave(Draw(h0 + 2 * k - 2))
                      /\ voices[<<c, 2 * k>>].rate = LfoRate(Draw(h0 + 2 * k - 1))
                /\ calls[c].ticks # <<>> => calls[c].ticks[1].draw = PadDraws + 1

\* C13: for every injected draw stream and every number of ticks, the ticks
\* that emit with a complexity are at least as many as with any lower
\* complexity (in particular 1.0 against 0.1), although an emitting tick takes
\* three draws and a skipping tick one, so that the two runs read the stream at
\* different positions.
C13_ComplexityMonotone ==
    TicksRan =>
        LET run == HarnessRun
            out == HarnessOut
            cnt == [c \in Complexities |-> EmitCount(out[c])]
        IN  /\ run = MelodyRun(harness.draws, harness.params, 1, Len(run))
            /\ \A c \in Complexities :
                  LET r == out[c]
                  IN  \A k \in 1..(Len(r) - 1) :
                        r[k + 1].draw = r[k].draw + (IF r[k].emit THEN 3 ELSE 1)
            /\ \A c1 \in Complexities : \A c2 \in Complexities :
                  c1 <= c2 => cnt[c1] <= cnt[c2]

\* a run in which some tick emits with the lower complexity and skips with the
\* higher one: the two runs have drifted apart on the stream
C13_Witness ==
    /\ TicksRan
    /\ \E k \in 1..Len(HarnessRun) :
          /\ HarnessOut[One \div 10][k].emit
          /\ ~HarnessOut[One \div 2][k].emit
    /\ EmitCount(HarnessOut[One \div 10]) < EmitCount(HarnessOut[One])

\* C14 as stated: with complexity 0.5 and an injected stream beginning 0.9, 0.2,
\* 0.95, 0.3 the first four ticks are emit, skip, emit, skip.  (The code reads
\* three draws in an emitting tick.)
C14_OneDrawPerTick ==
    ScenarioRan(4) =>
        [k \in 1..4 |-> HarnessRun[k].emit] = <<TRUE, FALSE, TRUE, FALSE>>

\* C14 as amended: with complexity 0.5 and an injected stream beginning 0.9, 0.2,
\* 0.95, 0.3 the first tick emits on draw 1 and takes draws 2 and 3 for its note
\* (scale index 1, octave 2), the second tick decides with draw 4 and skips, and
\* the third tick decides with draw 5, the first draw after those four.
C14_ScenarioPattern ==
    ScenarioRan(2) =>
        LET run == HarnessRun
        IN  /\ run[1] = [draw |-> 1, emit |-> TRUE, noteIdx |-> 1, octave |-> 2]
            /\ run[2] = [draw |-> 4, emit |-> FALSE, noteIdx |-> 0, octave |-> 0]
            /\ Len(run) >= 3 =>
                  /\ run[3].draw = 5
                  /\ run[3].emit <=> StreamAt(harness.draws, 5) > One \div 2

\* the scenario played through four ticks, the third of which skips
C14_Witness ==
    /\ ScenarioRan(4)
    /\ HarnessRun[1].emit
    /\ ~HarnessRun[2].emit
    /\ ~HarnessRun[3].emit

\* C15: the melody uses the minor table exactly when the scale parameter is
\* "minor"; for major, pentatonic, chromatic, wholeTone and for a name the
\* schema does not know it uses the pentatonic table.
C15_MinorOrPentatonic ==
    (harness.fn = "start" /\ harness.ran) =>
        /\ harness.params.scale = "minor" =>
              harness.scaleName = "minor" /\ harness.scaleNotes = scales.minor
        /\ harness.params.scale # "minor" =>
              harness.scaleName = "pentatonic" /\ harness.scaleNotes = scales.pentatonic

C15_Witness ==
    /\ harness.fn = "start" /\ harness.ran
    /\ harness.params.scale = "major"
    /\ harness.scaleNotes = scales.pentatonic
    /\ harness.scaleNotes # scales.major

\* C16: play() suspends only at the backend-resume step: once a call is past
\* it, the rest of play() is one uninterrupted step, so whenever a call has
\* built its master gain and has not finished, the next step taken is its own
\* completion and not a step of another play(), a stop() or a tick.  (Checked
\* under SpecPair; the code violates it.)
C16_OneSuspension ==
    [][\A c \in 1..Len(calls) :
          calls[c].pc = "effects" => calls'[c].pc = "done"]_vars

\* C17: play() tears the existing session down before it waits for the
\* backend: while a play() call waits for ctx.resume() to settle, the liveness
\* flag is clear and no tick timer is set, and no note is emitted during the
\* wait.  (Checked under SpecSeq; the code violates it.)
C17_TeardownBeforeWait ==
    /\ [](\A c \in 1..Len(calls) :
            c \in Range(pending) => (~isPlaying /\ DOMAIN timers = {}))
    /\ [][(\E c \in 1..Len(calls) : c \in Range(pending)) => Len(notes') = Len(notes)]_vars

\* C18: over any sequence of play() and stop() calls every tracked voice is
\* released exactly once: it runs and is tracked until the first stop() after
\* its creation (the application's or the one inside play()), that stop() stops
\* and disconnects it, nothing else does, and no later stop() touches it again.
\* (A step that runs stop() leaves the flag clear and the tracked list empty.)
C18_ReleasedOnce ==
    /\ [](LET tracked == Range(currentOscillators)
          IN  \A v \in DOMAIN voices :
                IF v \in tracked
                THEN voices[v].releases = 0 /\ voices[v].running /\ voices[v].connected
                ELSE voices[v].releases = 1 /\ ~voices[v].running /\ ~voices[v].connected)
    /\ [][IF ~isPlaying' /\ currentOscillators' = <<>> /\ StopRuns
          THEN \A v \in DOMAIN voices : voices'[v].releases = 1
          ELSE \A v \in DOMAIN voices : voices'[v].releases = voices[v].releases]_vars

\* both sessions' voices were released, the first session's by the stop()
\* inside the second play(), and a later stop() has run
C18_Witness ==
    /\ Stopped
    /\ \E v \in DOMAIN voices : v[1] = 1 /\ voices[v].releases = 1
    /\ \E v \in DOMAIN voices : v[1] = 2 /\ voices[v].releases = 1

\* C19: stop() truncates everything in flight at once: right after stop()
\* returns, no melody note emitted earlier (also one still within its 2.0 s
\* life) and no pad tone is still running with a signal path to the output.
C19_StopSilences ==
    [][StopCall =>
        /\ \A i \in 1..Len(notes) : ~Audible(notes[i])'
        /\ \A v \in DOMAIN voices : ~Audible(voices[v])'
        /\ liveGains' = {}]_vars

\* stop() has run while a note was within its life: the note's oscillator
\* still runs and is connected to its master gain, which is cut off
C19_Witness ==
    /\ Stopped
    /\ \E i \in 1..Len(notes) :
          notes[i].running /\ notes[i].connected /\ notes[i].dest \notin liveGains
    /\ \E v \in DOMAIN voices : voices[v].releases = 1

\* C20 as stated: a tempo of zero is not special-cased: the tick period of
\* play() with tempo 0 is not the period of a default tempo, and for every
\* tempo > 0 the period is exactly 60 / tempo seconds (750 ms for tempo 80).
\* (The code replaces tempo 0 by 80.)
C20_NoDefaultTempo ==
    (harness.fn = "start" /\ harness.ran) =>
        /\ harness.params.tempo = 0 =>
              harness.period * DefaultTempo # 60000
        /\ harness.params.tempo > 0 =>
              harness.period * harness.params.tempo = 60000
        /\ harness.params.tempo = 80 => harness.period = 750

\* C20 as amended: a tempo of zero is replaced by the default tempo 80, so
\* that play() with tempo 0 ticks every 750 ms, and for every tempo > 0 the
\* period is exactly 60 / tempo seconds (750 ms for tempo 80).
C20_ZeroTempoDefaults ==
    (harness.fn = "start" /\ harness.ran) =>
        /\ harness.params.tempo = 0 =>
              harness.period * DefaultTempo = 60000 /\ harness.period = 750
        /\ harness.params.tempo > 0 =>
              harness.period * harness.params.tempo = 60000
        /\ harness.params.tempo = 80 => harness.period = 750

C20_Witness ==
    /\ harness.fn = "start" /\ harness.ran
    /\ harness.params.tempo = 0
    /\ harness.period = 750

----------------------------------------------------------------------------
(* C21 .. C30 *)

\* C21: a tick timer never outlives its session: every timer that is set in the
\* host is the one the engine holds in melodyInterval, so that the next stop()
\* (the application's or the one inside play()) cancels it, and a note is only
\* ever emitted by that timer.  (Checked under SpecPair; the code violates it.)
C21_TimerWithinSession ==
    /\ [](\A t \in DOMAIN timers : t = melodyInterval)
    /\ [][Len(notes') > Len(notes) => notes'[Len(notes')].timer = melodyInterval]_vars

\* C22: the effects bus is built once: over any sequence of play() and stop()
\* calls, overlapping ones included, the reverb unit and the delay unit are
\* created by the first play() that reaches setupEffects and are never replaced:
\* every later session finds and reuses those units.
C22_EffectsBuiltOnce ==
    /\ [](/\ (reverbNode = 0) <=> (delayNode = 0)
          /\ reverbNode = delayNode
          /\ \A c \in 1..Len(calls) : c \in liveGains => reverbNode # 0)
    /\ [][/\ reverbNode # 0 => reverbNode' = reverbNode
          /\ delayNode # 0 => delayNode' = delayNode
          /\ \A c \in 1..Len(calls) :
                (reverbNode = 0 /\ playAfterResume(c, {})) => reverbNode' = c]_vars

\* a second session is running on the units the first one built, after a stop()
C22_Witness ==
    /\ Len(calls) = 2
    /\ NormalSession(2)
    /\ reverbNode = 1 /\ delayNode = 1
    /\ \E v \in DOMAIN voices : v[1] = 1 /\ voices[v].releases = 1

\* C23: a live tick draws one value d and emits exactly when d > 1 - complexity
\* (strictly); a skipping tick takes one draw and an emitting tick three, the
\* second for the scale index, floor(draw * table length), which lies inside
\* the table, and the third for the octave, 2 exactly when that draw is > 0.7
\* and 1 otherwise.
C23_TickDraws ==
    TicksRan =>
        LET run == HarnessRun
            n == Len(run)
            c == harness.params.complexity
            len == Len(scales.minor)
        IN  /\ Len(notes) = EmitCount(run)
            /\ run[1].draw = 1
            /\ \A k \in 1..n :
                LET r == run[k]
                    d == StreamAt(harness.draws, r.draw)
                    d2 == StreamAt(harness.draws, r.draw + 1)
                    d3 == StreamAt(harness.draws, r.draw + 2)
                IN  /\ r.emit <=> d > One - c
                    /\ IF k < n
                       THEN run[k + 1].draw = r.draw + (IF r.emit THEN 3 ELSE 1)
                       ELSE HarnessPos = r.draw + (IF r.emit THEN 3 ELSE 1)
                    /\ r.emit =>
                          /\ r.noteIdx \in 0..(len - 1)
                          /\ r.noteIdx * One <= d2 * len
                          /\ d2 * len < (r.noteIdx + 1) * One
                          /\ r.octave = 2 <=> d3 > (7 * One) \div 10
                          /\ r.octave \in {1, 2}
                          /\ \E m \in 1..Len(notes) :
                                /\ notes[m].noteIdx = r.noteIdx
                                /\ notes[m].octave = r.octave

\* a run with complexity 0.1 in which a tick skips on a draw equal to
\* 1 - complexity, and an emitting tick has an octave draw of exactly 0.7
C23_Witness ==
    /\ TicksRan
    /\ harness.params.complexity = One \div 10
    /\ \E k \in 1..Len(HarnessRun) :
          /\ ~HarnessRun[k].emit
          /\ StreamAt(harness.draws, HarnessRun[k].draw) = (9 * One) \div 10
    /\ \E k \in 1..Len(HarnessRun) :
          /\ HarnessRun[k].emit
          /\ HarnessRun[k].octave = 1
          /\ StreamAt(harness.draws, HarnessRun[k].draw + 2) = (7 * One) \div 10

\* C24: all six pad units are tracked: when a play() that no other call
\* overlaps completes, the tracked list holds exactly 6 distinct units, 3 tones
\* and 3 modulators, all created by that play(); before the first play() and
\* after every stop() the list is empty.
C24_SixTracked ==
    /\ [](calls = <<>> => currentOscillators = <<>>)
    /\ [][/\ StopCall => currentOscillators' = <<>>
          /\ \A c \in 1..Len(calls) :
                playAfterEffects(c) =>
                    LET tracked == Range(currentOscillators')
                    IN  /\ Len(currentOscillators') = 6
                        /\ Cardinality(tracked) = 6
                        /\ \A v \in tracked : v[1] = c /\ voices'[v].running
                        /\ Cardinality({v \in tracked : voices'[v].kind = "osc"}) = 3
                        /\ Cardinality({v \in tracked : voices'[v].kind = "lfo"}) = 3]_vars

\* the second of two sessions has just started: its six units are tracked and
\* the first session's six are not
C24_Witness ==
    /\ Len(calls) = 2
    /\ calls[2].pc = "done"
    /\ Len(currentOscillators) = 6
    /\ \A v \in Range(currentOscillators) : v[1] = 2
    /\ Cardinality({v \in DOMAIN voices : v[1] = 1 /\ voices[v].releases = 1}) = 6

\* C25: every emitted note has its tone's stop (2.0 s) scheduled before its
\* node release (2.1 s), and the release runs exactly once for every emitted
\* note: never twice, and eventually once, also when stop() or a new play()
\* comes between the emission and the release.
C25_NoteReleasedOnce ==
    /\ [](\A i \in 1..Len(notes) :
            /\ notes[i].stopAt < notes[i].releaseAt
            /\ notes[i].releases <= 1
            /\ notes[i].connected <=> notes[i].releases = 0)
    /\ \A i \in 1..MaxNotes :
          (Len(notes) >= i) ~> (Len(notes) >= i /\ notes[i].releases = 1)

\* a note was released after stop() had cut its master gain off
C25_Witness ==
    /\ \E i \in 1..Len(notes) :
          notes[i].releases = 1 /\ notes[i].dest \notin liveGains
    /\ Stopped

\* C26: stop() disconnects every tracked voice, also one whose force-stop
\* raises: after stop() no voice that was tracked is still connected.
\* (Checked under SpecThrow; the code violates it.)
C26_DisconnectsAll ==
    [][\A r \in RaiseSets :
        (Quiet /\ stopWith(r)) =>
            \A i \in 1..Len(currentOscillators) :
                ~voices'[currentOscillators[i]].connected]_vars

\* C27: for every seed string the hash is the fold hash * 31 + code reduced
\* to a signed 32-bit integer after every step, so it always lies in the
\* signed 32-bit range. (The code violates it: see C27_OnlyShiftReduced.)
C27_HashInInt32 ==
    (harness.fn = "hash" /\ harness.ran) =>
        \A k \in 1..Len(harness.seed) :
            /\ InInt32(harness.out[k])
            /\ harness.out[k] = ToInt32(Fold31(HashBefore(k), harness.seed[k]))

\* C27 as the code has it: only the shifted term is reduced to 32 bits, the
\* difference and the sum are not. Each step is code + int32(hash * 32) - hash;
\* it equals the fold hash * 31 + code while hash * 32 fits 32 bits, and is
\* congruent to it modulo 2^32 always.
C27_OnlyShiftReduced ==
    (harness.fn = "hash" /\ harness.ran) =>
        \A k \in 1..Len(harness.seed) :
            LET prev  == HashBefore(k)
                code  == harness.seed[k]
                times == Wide(32 * prev.hi, 32 * prev.lo)
                shl   == ToInt32(times)
            IN  /\ harness.out[k] = Wide(shl.hi - prev.hi, code + shl.lo - prev.lo)
                /\ InInt32(times) => harness.out[k] = Fold31(prev, code)
                /\ ToInt32(harness.out[k]) = ToInt32(Fold31(prev, code))

\* the seed "aaaaaaa" hashes to 3058106369 = 46663 * 65536 + 1, above 2^31 - 1
C27_Witness ==
    /\ harness.fn = "hash"
    /\ harness.ran
    /\ harness.seed = <<97, 97, 97, 97, 97, 97, 97>>
    /\ harness.out[7] = [hi |-> 46663, lo |-> 1]
    /\ ~InInt32(harness.out[7])

\* C28: when stop() is called while a play() call is still suspended and no
\* play() is issued after it, the engine stays stopped: no pad voice sounds, no
\* tick timer is registered and the liveness flag stays clear.
\* (Checked under SpecLeave; the code violates it.)
C28_StaysStopped ==
    harness = LeftView =>
        /\ ~isPlaying
        /\ melodyInterval = 0
        /\ DOMAIN timers = {}
        /\ \A v \in DOMAIN voices : ~voices[v].running

\* C29: when play() calls overlap, then once all of them have finished the
\* active session is the one of the call issued last: the registered tick timer
\* and the current master gain are that call's, and every voice connected to
\* the current master gain was created by it.
\* (Checked under SpecPair; the code violates it.)
C29_LastIssuedWins ==
    LET last == Len(calls)
    IN  (last >= 2 /\ \A c \in 1..last : calls[c].pc = "done") =>
            /\ melodyInterval = last
            /\ masterGain = last
            /\ \A v \in DOMAIN voices :
                  (voices[v].connected /\ voices[v].dest = masterGain) => v[1] = last

\* C30: in every reachable state, if the liveness flag is set then a master
\* gain exists, a tick timer is registered in the engine and the tracked-voice
\* list is not empty.  (Checked under Spec; the code violates it.)
C30_FlagImpliesSession ==
    isPlaying =>
        /\ masterGain # 0
        /\ melodyInterval # 0
        /\ currentOscillators # <<>>

====
